---- MODULE Spec2Model ----
(***************************************************************************)
(* Model of the trajectory runners of Simulation-trajectoire:              *)
(*   - iterations()      gui/components/plot_3d/iterations.py  (membrane)  *)
(*   - run_simulation()  gui/components/simulation.py          (Gaussian)  *)
(* with the field functions they call (plot_3d/model.py, SurfaceField)     *)
(* and the derived initial velocity of plot_3d SimulationParams.           *)
(*                                                                         *)
(* Numbers.  A Python float is modelled by an integer count of 1/Unit:     *)
(* 0.49 is 49, 9.81 is 981.  Every float division, sqrt, log, exp and      *)
(* every product is rounded to the nearest grid value (ties away from      *)
(* zero), as IEEE rounds to the nearest double.  x*x + y*y under a sqrt    *)
(* and sigma**2 are kept exact before the rounding of the enclosing        *)
(* operation, except that a sigma**2 which rounds to 0 on the grid is the  *)
(* 0.0 a double gives for the square of a sigma below 1e-162.              *)
(* The literal 1e-6 is one grid step (Eps6); the literal                   *)
(* 1e-12 is below the grid, so `v > 1e-12` is `v > 0` on grid values.      *)
(* A Python exception (ZeroDivisionError, ValueError) ends the call in     *)
(* pc = "raised".                                                          *)
(***************************************************************************)
EXTENDS Integers, Sequences, FiniteSets, TLC

VARIABLES
    runner,     \* which function is being called: "iterations" | "run_simulation"
    params,     \* the SimulationParams object passed to the call
    pc,         \* "start" (called, nothing executed) | "loop" | "done" | "raised"
    x, y,       \* position locals
    vx, vy,     \* velocity locals
    xs, ys, zs, \* history lists
    steps_run,  \* step counter local
    collided,   \* run_simulation's collided flag (FALSE in iterations)
    printed,    \* the warnings printed so far by the call
    result,     \* the returned dict, NoResult until the call returns
    call,       \* 1 for the first call on params, 2 for the second
    first,      \* the dict returned by the first call, NoResult before
    grad,       \* what the field function returned in the latest pass
    other,      \* the locals of a second call running at the same time
    acc,        \* `a`, the acceleration the Verlet loop carries between passes
    frames,     \* the animation frames built from the history, as indices
    window      \* the tracking Window with its LiveTracking object

vars == <<runner, params, pc, x, y, vx, vy, xs, ys, zs, steps_run,
          collided, printed, result, call, first, grad, other,
          acc, frames, window>>

----------------------------------------------------------------------------
(* Bounds of the model *)

MaxNumSteps == 3      \* num_steps ranges over 0..MaxNumSteps
Overrun == 3          \* a loop is followed for at most MaxNumSteps+Overrun steps

StepCap == MaxNumSteps + Overrun
MaxNFrames == 25       \* the largest n_frames of the Verlet runner

----------------------------------------------------------------------------
(* Float arithmetic on the grid *)

Unit == 100
Eps6 == 1

Abs(a) == IF a < 0 THEN -a ELSE a

\* a / b rounded to the nearest integer, ties away from zero (b > 0)
Rnd(a, b) == IF a >= 0 THEN (2 * a + b) \div (2 * b)
                       ELSE -((2 * (-a) + b) \div (2 * b))

\* float product
Mul(a, b) == Rnd(a * b, Unit)

\* float quotient a / b, b # 0 (the callers raise on b = 0 as Python does)
Quo(a, b) == IF b > 0 THEN Rnd(a * Unit, b) ELSE Rnd(-(a * Unit), -b)

Max(a, b) == IF a >= b THEN a ELSE b
Min(a, b) == IF a <= b THEN a ELSE b

RECURSIVE SqrtSearch(_, _, _)
\* the largest r in lo..hi with r*r <= n
SqrtSearch(n, lo, hi) ==
    IF lo >= hi THEN lo
    ELSE LET mid == (lo + hi + 1) \div 2
         IN  IF mid * mid <= n THEN SqrtSearch(n, mid, hi)
                               ELSE SqrtSearch(n, lo, mid - 1)

\* integer square root of n >= 0, rounded to nearest
ISqrt(n) ==
    LET f == SqrtSearch(n, 0, Min(n, 46340))
    IN  IF n - f * f > f THEN f + 1 ELSE f

\* math.sqrt(x*x + y*y)
Radius(px, py) == ISqrt(px * px + py * py)

Ln2 == 69

RECURSIVE Ln(_)
\* math.log(q) for q > 0: ln 2 per binary order of magnitude, linear on [1, 2)
Ln(q) ==
    IF q >= 2 * Unit THEN Ln2 + Ln(Rnd(q, 2))
    ELSE IF q < Unit THEN Ln(2 * q) - Ln2
    ELSE Mul(q - Unit, Ln2)

RECURSIVE Halve(_, _)
Halve(v, k) == IF k = 0 \/ v = 0 THEN v ELSE Halve(Rnd(v, 2), k - 1)

\* math.exp(-t) for t >= 0: halved once per ln 2, linear in between
ExpNeg(t) ==
    LET k == t \div Ln2
        f == t % Ln2
    IN  Halve(Unit - Rnd(f * Unit, 2 * Ln2), k)

TwoPi == 628

\* math.cos(radians(th)), math.sin(radians(th)) on the angles of the model
CosDeg(th) == CASE th = 0 -> 100 [] th = 45 -> 71 [] th = 90 -> 0
                [] th = 135 -> -71 [] th = 180 -> -100 [] th = 270 -> 0
SinDeg(th) == CASE th = 0 -> 0 [] th = 45 -> 71 [] th = 90 -> 100
                [] th = 135 -> 71 [] th = 180 -> 0 [] th = 270 -> -100

----------------------------------------------------------------------------
(* plot_3d/simulation_params.py *)

G == 981
Thetas == {0, 90, 180}
Speeds == {0, 50, 100}
Positions == { <<49, 0>>, <<50, 0>>, <<60, 80>>, <<3, 0>>, <<6, 0>>,
               <<0, 0>>, <<0, 20>>, <<12, 16>> }

MembraneParams ==
    { [g |-> g, time_step |-> 20, num_steps |-> n,
       surface_radius |-> 50, surface_tension |-> 1000,
       center_weight |-> 490, center_radius |-> 5,
       x0 |-> p[1], y0 |-> p[2], v_i |-> v, theta |-> th,
       friction_coef |-> fc] :
         g \in {0, G}, n \in 0..MaxNumSteps, p \in Positions,
         v \in Speeds, th \in Thetas, fc \in {0, 30} }

\* SimulationParams.vx0
Vx0(p) ==
    LET r == Radius(p.x0, p.y0)
        rx == IF r > 0 THEN Quo(-p.x0, r) ELSE -Unit
        tx == IF r > 0 THEN Quo(-p.y0, r) ELSE 0
    IN  Mul(p.v_i, Mul(CosDeg(p.theta), rx) + Mul(SinDeg(p.theta), tx))

\* Vy0 with the tangential unit vector taken as r_hat rotated counterclockwise
Vy0Mirrored(p) ==
    LET r == Radius(p.x0, p.y0)
        ry == IF r > 0 THEN Quo(-p.y0, r) ELSE 0
        ty == IF r > 0 THEN Quo(-p.x0, r) ELSE Unit
    IN  Mul(p.v_i, Mul(CosDeg(p.theta), ry) + Mul(SinDeg(p.theta), ty))

\* SimulationParams.vy0
Vy0(p) ==
    LET r == Radius(p.x0, p.y0)
        ry == IF r > 0 THEN Quo(-p.y0, r) ELSE 0
        ty == IF r > 0 THEN Quo(p.x0, r) ELSE Unit
    IN  Mul(p.v_i, Mul(CosDeg(p.theta), ry) + Mul(SinDeg(p.theta), ty))

----------------------------------------------------------------------------
(* plot_3d/model.py *)

\* deformation() raises: division by T = 0 or by r_use = 0, log of a value <= 0
DeformationRaises(r, R, T, F, center_radius) ==
    LET r_use == Max(r, center_radius)
    IN  \/ Mul(TwoPi, T) = 0
        \/ r_use = 0
        \/ Quo(R, r_use) <= 0

deformation(r, R, T, F, center_radius) ==
    LET r_use == Max(r, center_radius)
    IN  Mul(Quo(-F, Mul(TwoPi, T)), Ln(Quo(R, r_use)))

\* gradient_xy with the gradient coeff * (x / r) of the Notes of its docstring
gradient_xy_over_r(px, py, R, T, F, center_radius) ==
    LET r == Radius(px, py)
        z == deformation(r, R, T, F, center_radius)
        coeff == Quo(F, Mul(TwoPi, T))
    IN  IF r > 0
        THEN [z |-> z,
              dz_dx |-> Mul(coeff, Quo(px, r)),
              dz_dy |-> Mul(coeff, Quo(py, r))]
        ELSE [z |-> z, dz_dx |-> 0, dz_dy |-> 0]

gradient_xy(px, py, R, T, F, center_radius) ==
    LET r == Radius(px, py)
        z == deformation(r, R, T, F, center_radius)
        coeff == Quo(F, Mul(TwoPi, T))
    IN  IF r > 0
        THEN [z |-> z,
              dz_dx |-> Mul(coeff, Rnd(px * Unit * Unit, r * r)),
              dz_dy |-> Mul(coeff, Rnd(py * Unit * Unit, r * r))]
        ELSE [z |-> z, dz_dx |-> 0, dz_dy |-> 0]

----------------------------------------------------------------------------
(* plot_3d/iterations.py *)

NoResult == [returned |-> FALSE]

\* z, dz_dx, dz_dy (dh_dx, dh_dy in run_simulation) before the first pass
Unassigned == [assigned |-> FALSE]

\* no second call is running
Idle == [pc |-> "idle"]

\* the tracking window is not created
NoWindow == [created |-> FALSE]

\* m = F / g if g != 0.0 else 1.0
Mass(p) == IF p.g # 0 THEN Quo(p.center_weight, p.g) ELSE Unit

\* StartPos with the start scaled onto the boundary, not inside it
StartPosOnBoundary(p) ==
    LET r0 == Radius(p.x0, p.y0)
        R == p.surface_radius
        scale == Quo(R, r0)
    IN  IF r0 >= R
        THEN IF r0 > 0 THEN <<Mul(p.x0, scale), Mul(p.y0, scale)>>
                       ELSE <<R, 0>>
        ELSE <<p.x0, p.y0>>

\* the initial position after the clamp of a start at or beyond R
StartPos(p) ==
    LET r0 == Radius(p.x0, p.y0)
        R == p.surface_radius
        scale == Quo(R - Eps6, r0)
    IN  IF r0 >= R
        THEN IF r0 > 0 THEN <<Mul(p.x0, scale), Mul(p.y0, scale)>>
                       ELSE <<Min(R - Eps6, R), 0>>
        ELSE <<p.x0, p.y0>>

\* one pass of the loop body raises before it changes anything
IterRaises(p, px, py) ==
    \/ DeformationRaises(Radius(px, py), p.surface_radius, p.surface_tension,
                         p.center_weight, p.center_radius)
    \/ Mass(p) = 0

\* GravityAlongSlope with the sign of the slope kept: up the slope
GravityUpSlope(g, dz) == Mul(g, dz)

\* lines 110-111: ax_g = -g * dz_dx, ay_g = -g * dz_dy
GravityAlongSlope(g, dz) == Mul(-g, dz)

\* IterBody with the position advanced by the velocity of the pre-step state
IterBodyExplicit(p, px, py, pvx, pvy) ==
    LET gr == gradient_xy(px, py, p.surface_radius, p.surface_tension,
                          p.center_weight, p.center_radius)
        ax == Mul(-p.g, gr.dz_dx) - Mul(Quo(p.friction_coef, Mass(p)), pvx)
        ay == Mul(-p.g, gr.dz_dy) - Mul(Quo(p.friction_coef, Mass(p)), pvy)
    IN  [x |-> px + Mul(pvx, p.time_step), y |-> py + Mul(pvy, p.time_step),
         vx |-> pvx + Mul(ax, p.time_step), vy |-> pvy + Mul(ay, p.time_step),
         z |-> gr.z, dz_dx |-> gr.dz_dx, dz_dy |-> gr.dz_dy]

\* the Euler update of one pass: acceleration from the pre-step state,
\* velocity first, position with the updated velocity
IterBody(p, px, py, pvx, pvy) ==
    LET gr == gradient_xy(px, py, p.surface_radius, p.surface_tension,
                          p.center_weight, p.center_radius)
        ax_g == GravityAlongSlope(p.g, gr.dz_dx)
        ay_g == GravityAlongSlope(p.g, gr.dz_dy)
        ax == ax_g - Mul(Quo(p.friction_coef, Mass(p)), pvx)
        ay == ay_g - Mul(Quo(p.friction_coef, Mass(p)), pvy)
        nvx == pvx + Mul(ax, p.time_step)
        nvy == pvy + Mul(ay, p.time_step)
    IN  [x |-> px + Mul(nvx, p.time_step), y |-> py + Mul(nvy, p.time_step),
         vx |-> nvx, vy |-> nvy, z |-> gr.z,
         dz_dx |-> gr.dz_dx, dz_dy |-> gr.dz_dy]

\* line 131: if r >= R
EscapeTest(p, r) == r >= p.surface_radius

\* CollisionTest when the test of the central sphere is left out of the loop
CollisionTestMissing(p, r) == FALSE

\* line 134: if r <= center_radius
CollisionTest(p, r) == r <= p.center_radius

\* the dict iterations() returns
IterResult(hx, hy, hz, n, fx, fy, fvx, fvy) ==
    [returned |-> TRUE, xs |-> hx, ys |-> hy, zs |-> hz, steps_run |-> n,
     final_state |-> [x |-> fx, y |-> fy, vx |-> fvx, vy |-> fvy]]

\* IterClamp with the rescaled start stored back into the params object
IterClampWritesBack ==
    /\ x' = StartPos(params)[1]
    /\ y' = StartPos(params)[2]
    /\ params' = [params EXCEPT !.x0 = StartPos(params)[1],
                                !.y0 = StartPos(params)[2]]

\* lines 64-80: x0 and y0 are read into locals and only the locals are
\* rescaled when the start is clamped
IterClamp ==
    /\ x' = StartPos(params)[1]
    /\ y' = StartPos(params)[2]
    /\ UNCHANGED params

\* IterStart with the history lists kept from one call to the next
IterStartShared ==
    /\ runner = "iterations" /\ pc = "start"
    /\ IterClamp
    /\ vx' = Vx0(params)
    /\ vy' = Vy0(params)
    /\ UNCHANGED <<xs, ys, zs>>
    /\ steps_run' = 0
    /\ printed' = IF Radius(params.x0, params.y0) >= params.surface_radius
                  THEN <<"clamped">> ELSE <<>>
    /\ grad' = Unassigned
    /\ pc' = "loop"
    /\ UNCHANGED <<runner, collided, result, call, first, other,
                   acc, frames, window>>

\* lines 49-103: read the parameters, clamp the start, empty the history
IterStart ==
    /\ runner = "iterations" /\ pc = "start"
    /\ IterClamp
    /\ vx' = Vx0(params)
    /\ vy' = Vy0(params)
    /\ xs' = <<>> /\ ys' = <<>> /\ zs' = <<>>
    /\ steps_run' = 0
    /\ printed' = IF Radius(params.x0, params.y0) >= params.surface_radius
                  THEN <<"clamped">> ELSE <<>>
    /\ grad' = Unassigned
    /\ pc' = "loop"
    /\ UNCHANGED <<runner, collided, result, call, first, other,
                   acc, frames, window>>

\* IterStep with the stop tests made at the top of the pass, before the
\* Euler update
IterStepTestsFirst ==
    /\ runner = "iterations" /\ pc = "loop"
    /\ steps_run < StepCap
    /\ IF EscapeTest(params, Radius(x, y))
          \/ CollisionTest(params, Radius(x, y))
       THEN /\ pc' = "done"
            /\ result' = IterResult(xs, ys, zs, steps_run, x, y, vx, vy)
            /\ UNCHANGED <<x, y, vx, vy, xs, ys, zs, steps_run, printed,
                           grad>>
       ELSE IF IterRaises(params, x, y)
       THEN /\ pc' = "raised"
            /\ UNCHANGED <<x, y, vx, vy, xs, ys, zs, steps_run, printed,
                           result, grad>>
       ELSE LET b == IterBody(params, x, y, vx, vy)
                r == Radius(b.x, b.y)
                hx == Append(xs, b.x)
                hy == Append(ys, b.y)
                hz == Append(zs, b.z)
                stop == EscapeTest(params, r) \/ CollisionTest(params, r)
            IN  /\ x' = b.x /\ y' = b.y /\ vx' = b.vx /\ vy' = b.vy
                /\ xs' = hx /\ ys' = hy /\ zs' = hz
                /\ grad' = [z |-> b.z, dz_dx |-> b.dz_dx, dz_dy |-> b.dz_dy]
                /\ steps_run' = steps_run + 1
                /\ printed' = IF EscapeTest(params, r)
                              THEN Append(printed, "escaped")
                              ELSE IF CollisionTest(params, r)
                              THEN Append(printed, "collided")
                              ELSE printed
                /\ pc' = IF stop THEN "done" ELSE "loop"
                /\ result' = IF stop
                             THEN IterResult(hx, hy, hz, steps_run + 1,
                                             b.x, b.y, b.vx, b.vy)
                             ELSE result
    /\ UNCHANGED <<runner, params, collided, call, first, other,
                   acc, frames, window>>

\* lines 105-147: one pass of `while True`, with the stop tests and the return
IterStep ==
    /\ runner = "iterations" /\ pc = "loop"
    /\ steps_run < StepCap
    /\ IF IterRaises(params, x, y)
       THEN /\ pc' = "raised"
            /\ UNCHANGED <<x, y, vx, vy, xs, ys, zs, steps_run, printed,
                           result, grad>>
       ELSE LET b == IterBody(params, x, y, vx, vy)
                r == Radius(b.x, b.y)
                hx == Append(xs, b.x)
                hy == Append(ys, b.y)
                hz == Append(zs, b.z)
                stop == EscapeTest(params, r) \/ CollisionTest(params, r)
            IN  /\ x' = b.x /\ y' = b.y /\ vx' = b.vx /\ vy' = b.vy
                /\ xs' = hx /\ ys' = hy /\ zs' = hz
                /\ grad' = [z |-> b.z, dz_dx |-> b.dz_dx, dz_dy |-> b.dz_dy]
                /\ steps_run' = steps_run + 1
                /\ printed' = IF EscapeTest(params, r)
                              THEN Append(printed, "escaped")
                              ELSE IF CollisionTest(params, r)
                              THEN Append(printed, "collided")
                              ELSE printed
                /\ pc' = IF stop THEN "done" ELSE "loop"
                /\ result' = IF stop
                             THEN IterResult(hx, hy, hz, steps_run + 1,
                                             b.x, b.y, b.vx, b.vy)
                             ELSE result
    /\ UNCHANGED <<runner, params, collided, call, first, other,
                   acc, frames, window>>

----------------------------------------------------------------------------
(* simulation.py *)

GaussPositions == {3, 5, 15, 45}

GaussParams ==
    { [earth_gravity |-> G, friction_coefficient |-> c, time_step |-> 10,
       num_steps |-> n, center_radius |-> 5, center_mass |-> 100,
       surface_depth |-> d, surface_sigma |-> 20,
       initial_position_x |-> px, initial_position_y |-> 0,
       initial_velocity_x |-> ivx, initial_velocity_y |-> ivy,
       outer_surface_radius |-> 50] :
         c \in {0, 5}, n \in 0..MaxNumSteps, d \in {0, 10},
         px \in GaussPositions, ivx \in {-100, 0, 100}, ivy \in {0, 100} }

\* sigma > 0.0 selects the denominators 2.0 * sigma**2 and sigma**2, and the
\* square of a small positive sigma rounds to 0.0: both h and gradient then
\* divide by zero, at every (x, y)
FieldRaises(sigma) == sigma > 0 /\ Mul(sigma, sigma) = 0

\* exp(-r2 / denom) of SurfaceField.h and SurfaceField.gradient; for
\* sigma <= 0 the quotient r2 / 1e-12 is 0 at the origin and past the
\* range of exp everywhere else on the grid
FieldExp(sigma, px, py) ==
    IF sigma > 0
    THEN ExpNeg(Rnd((px * px + py * py) * Unit, 2 * sigma * sigma))
    ELSE IF px = 0 /\ py = 0 THEN Unit ELSE 0

\* SurfaceField.h
SurfaceH(depth, sigma, px, py) == Mul(-depth, FieldExp(sigma, px, py))

\* SurfaceField.gradient; for sigma <= 0 one of e and the coordinate is 0 at
\* every grid point, and so is the product with 1e12
SurfaceGradient(depth, sigma, px, py) ==
    LET e == FieldExp(sigma, px, py)
        inv_sigma2 == Rnd(Unit * Unit * Unit, sigma * sigma)
    IN  IF sigma > 0
        THEN [dh_dx |-> Mul(Mul(Mul(depth, e), px), inv_sigma2),
              dh_dy |-> Mul(Mul(Mul(depth, e), py), inv_sigma2)]
        ELSE [dh_dx |-> 0, dh_dy |-> 0]

\* lines 193-202: the Euler update of one pass of the for loop
RunBody(p, px, py, pvx, pvy) ==
    LET gr == SurfaceGradient(p.surface_depth, p.surface_sigma, px, py)
        ax == Mul(-p.earth_gravity, gr.dh_dx) - Mul(p.friction_coefficient, pvx)
        ay == Mul(-p.earth_gravity, gr.dh_dy) - Mul(p.friction_coefficient, pvy)
        nvx == pvx + Mul(ax, p.time_step)
        nvy == pvy + Mul(ay, p.time_step)
    IN  [x |-> px + Mul(nvx, p.time_step), y |-> py + Mul(nvy, p.time_step),
         vx |-> nvx, vy |-> nvy, dh_dx |-> gr.dh_dx, dh_dy |-> gr.dh_dy]

\* the dict run_simulation() returns
RunResult(hx, hy, hz, c, n, fx, fy, fvx, fvy) ==
    [returned |-> TRUE, xs |-> hx, ys |-> hy, zs |-> hz, collided |-> c,
     steps_run |-> n,
     final_state |-> [x |-> fx, y |-> fy, vx |-> fvx, vy |-> fvy]]

\* RunStart with the initial position recorded as the first history entry
RunStartRecordsInitial ==
    /\ runner = "run_simulation" /\ pc = "start"
    /\ x' = params.initial_position_x
    /\ y' = params.initial_position_y
    /\ vx' = params.initial_velocity_x
    /\ vy' = params.initial_velocity_y
    /\ xs' = <<params.initial_position_x>>
    /\ ys' = <<params.initial_position_y>>
    /\ zs' = <<0>>
    /\ collided' = FALSE
    /\ steps_run' = 0
    /\ grad' = Unassigned
    /\ pc' = "loop"
    /\ UNCHANGED <<runner, params, printed, result, call, first, other,
                   acc, frames, window>>

\* lines 158-184
RunStart ==
    /\ runner = "run_simulation" /\ pc = "start"
    /\ x' = params.initial_position_x
    /\ y' = params.initial_position_y
    /\ vx' = params.initial_velocity_x
    /\ vy' = params.initial_velocity_y
    /\ xs' = <<>> /\ ys' = <<>> /\ zs' = <<>>
    /\ collided' = FALSE
    /\ steps_run' = 0
    /\ grad' = Unassigned
    /\ pc' = "loop"
    /\ UNCHANGED <<runner, params, printed, result, call, first, other,
                   acc, frames, window>>

\* lines 186-191 and 211-221: the collision test at the top of a pass breaks
RunCollide ==
    /\ runner = "run_simulation" /\ pc = "loop"
    /\ steps_run < params.num_steps
    /\ Radius(x, y) < params.center_radius
    /\ collided' = TRUE
    /\ pc' = "done"
    /\ result' = RunResult(xs, ys, zs, TRUE, steps_run, x, y, vx, vy)
    /\ UNCHANGED <<runner, params, x, y, vx, vy, xs, ys, zs, steps_run,
                   printed, call, first, grad, other, acc, frames, window>>

\* lines 186-209: one pass of the for loop that does not break
RunStep ==
    /\ runner = "run_simulation" /\ pc = "loop"
    /\ steps_run < params.num_steps
    /\ ~(Radius(x, y) < params.center_radius)
    /\ IF FieldRaises(params.surface_sigma)
       THEN /\ pc' = "raised"
            /\ UNCHANGED <<x, y, vx, vy, xs, ys, zs, steps_run, grad>>
       ELSE LET b == RunBody(params, x, y, vx, vy)
            IN  /\ x' = b.x /\ y' = b.y /\ vx' = b.vx /\ vy' = b.vy
                /\ xs' = Append(xs, b.x)
                /\ ys' = Append(ys, b.y)
                /\ zs' = Append(zs, SurfaceH(params.surface_depth,
                                             params.surface_sigma, b.x, b.y))
                /\ grad' = [dh_dx |-> b.dh_dx, dh_dy |-> b.dh_dy]
                /\ steps_run' = steps_run + 1
                /\ pc' = pc
    /\ UNCHANGED <<runner, params, collided, printed, result, call, first,
                   other, acc, frames, window>>

\* lines 186 and 211-221: range(steps) is exhausted
RunExhausted ==
    /\ runner = "run_simulation" /\ pc = "loop"
    /\ steps_run >= params.num_steps
    /\ pc' = "done"
    /\ result' = RunResult(xs, ys, zs, collided, steps_run, x, y, vx, vy)
    /\ UNCHANGED <<runner, params, x, y, vx, vy, xs, ys, zs, steps_run,
                   collided, printed, call, first, grad, other,
                   acc, frames, window>>

----------------------------------------------------------------------------
(* callers *)

\* a caller runs the same runner a second time on the same params object,
\* as update_simulation_figure does for the static and the animated figure
SecondCall ==
    /\ pc = "done" /\ call = 1
    /\ first' = result
    /\ result' = NoResult
    /\ call' = 2
    /\ pc' = "start"
    /\ UNCHANGED <<runner, params, x, y, vx, vy, xs, ys, zs, steps_run,
                   collided, printed, grad, other, acc, frames, window>>

Init ==
    /\ runner \in {"iterations", "run_simulation"}
    /\ params \in IF runner = "iterations" THEN MembraneParams ELSE GaussParams
    /\ pc = "start"
    /\ x = 0 /\ y = 0 /\ vx = 0 /\ vy = 0
    /\ xs = <<>> /\ ys = <<>> /\ zs = <<>>
    /\ steps_run = 0
    /\ collided = FALSE
    /\ printed = <<>>
    /\ result = NoResult
    /\ call = 1
    /\ first = NoResult
    /\ grad = Unassigned
    /\ acc = <<0, 0>>
    /\ frames = <<>>
    /\ window = NoWindow
    /\ other = Idle

Next ==
    \/ IterStart
    \/ IterStep
    \/ RunStart
    \/ RunCollide
    \/ RunStep
    \/ RunExhausted
    \/ SecondCall

Spec == Init /\ [][Next]_vars

----------------------------------------------------------------------------
(* degenerate parameters: neither dataclass validates its fields           *)

\* a well-formed membrane configuration
WellFormed(n, v) ==
    [g |-> G, time_step |-> 20, num_steps |-> n,
     surface_radius |-> 50, surface_tension |-> 1000,
     center_weight |-> 490, center_radius |-> 5,
     x0 |-> 49, y0 |-> 0, v_i |-> v, theta |-> 0, friction_coef |-> 30]

\* the well-formed configuration with one degenerate field each: no
\* tension, no central weight (with and without gravity), no central
\* radius and a start at the origin, no or a negative surface radius
DegenerateMembraneParams ==
    UNION { { [WellFormed(n, v) EXCEPT !.surface_tension = 0],
              [WellFormed(n, v) EXCEPT !.center_weight = 0],
              [WellFormed(n, v) EXCEPT !.center_weight = 0, !.g = 0],
              [WellFormed(n, v) EXCEPT !.center_radius = 0, !.x0 = 0],
              [WellFormed(n, v) EXCEPT !.surface_radius = 0],
              [WellFormed(n, v) EXCEPT !.surface_radius = -50] } :
            n \in 0..MaxNumSteps, v \in Speeds }

\* Gaussian configurations with sigma = 0, sigma < 0 and a positive sigma
\* whose square rounds to 0.0
DegenerateSigmas == {0, -20, 5}

DegenerateGaussParams ==
    { [earth_gravity |-> G, friction_coefficient |-> 0, time_step |-> 10,
       num_steps |-> n, center_radius |-> 5, center_mass |-> 100,
       surface_depth |-> d, surface_sigma |-> sg,
       initial_position_x |-> px, initial_position_y |-> 0,
       initial_velocity_x |-> ivx, initial_velocity_y |-> 0,
       outer_surface_radius |-> 50] :
         n \in 0..MaxNumSteps, d \in {0, 10}, sg \in DegenerateSigmas,
         px \in GaussPositions \cup {0}, ivx \in {-100, 0, 100} }

InitDegenerate ==
    /\ runner \in {"iterations", "run_simulation"}
    /\ params \in IF runner = "iterations" THEN DegenerateMembraneParams
                                            ELSE DegenerateGaussParams
    /\ pc = "start"
    /\ x = 0 /\ y = 0 /\ vx = 0 /\ vy = 0
    /\ xs = <<>> /\ ys = <<>> /\ zs = <<>>
    /\ steps_run = 0
    /\ collided = FALSE
    /\ printed = <<>>
    /\ result = NoResult
    /\ call = 1
    /\ first = NoResult
    /\ grad = Unassigned
    /\ acc = <<0, 0>>
    /\ frames = <<>>
    /\ window = NoWindow
    /\ other = Idle

SpecDegenerate == InitDegenerate /\ [][Next]_vars

----------------------------------------------------------------------------
(* Properties *)

IsIter == runner = "iterations"
IsRun == runner = "run_simulation"

\* the radius of the i-th recorded position
RecordedRadius(i) == Radius(xs[i], ys[i])

\* the call returned after printing the given stop warning (iterations)
StoppedOn(w) ==
    IsIter /\ pc = "done" /\ Len(printed) > 0 /\ printed[Len(printed)] = w

\* C1: a run never performs more Euler steps than the configured budget:
\* steps_run <= num_steps at every point of every run of both runners.
C1_StepBudget == steps_run <= params.num_steps

\* C2: every run halts at the latest when the step counter reaches
\* num_steps: a loop standing at a counter that has reached the budget
\* makes no further pass, its next step is the return.
C2_HaltsAtBudget ==
    [][(pc = "loop" /\ steps_run >= params.num_steps) => pc' = "done"]_vars

\* C3: in every run that stopped on a collision or an escape, the position
\* that met the terminal condition is the last history entry and is the
\* (x, y) of final_state.
C3_TerminalPositionRecorded ==
    (pc = "done" /\ (IsIter \/ collided)) =>
        /\ Len(result.xs) > 0
        /\ result.xs[Len(result.xs)] = result.final_state.x
        /\ result.ys[Len(result.ys)] = result.final_state.y

\* C4: in every run that ended in Collided, the history is non-empty, its
\* last position has radius <= center_radius and no earlier recorded
\* position has.
C4_CollidedLastIsFirstCrossing ==
    (pc = "done" /\ ((IsRun /\ collided) \/ StoppedOn("collided"))) =>
        /\ Len(xs) > 0
        /\ RecordedRadius(Len(xs)) <= params.center_radius
        /\ \A i \in 1..(Len(xs) - 1) : RecordedRadius(i) > params.center_radius

\* C5: in every run of iterations() that ended in Escaped, the last
\* recorded position has radius >= R and every earlier one lies strictly
\* between center_radius and R.
C5_EscapedLastOutside ==
    StoppedOn("escaped") =>
        /\ Len(xs) > 0
        /\ RecordedRadius(Len(xs)) >= params.surface_radius
        /\ \A i \in 1..(Len(xs) - 1) :
               /\ RecordedRadius(i) > params.center_radius
               /\ RecordedRadius(i) < params.surface_radius

\* an escaped run that recorded positions before the escaping one
C5_Witness == StoppedOn("escaped") /\ Len(xs) >= 3

\* C6: run_simulation() takes no step after a recorded position has left
\* the surface: only the last recorded position can have a radius >=
\* outer_surface_radius.
C6_StopsOnLeavingSurface ==
    IsRun => \A i \in 1..(Len(xs) - 1) :
                 RecordedRadius(i) < params.outer_surface_radius

\* C7: the second call of a runner on the same params returns the same
\* xs, ys, zs, steps_run and final_state as the first.
C7_SecondCallSameResult == (call = 2 /\ pc = "done") => result = first

\* both figures of one Apply were built from a clamped start, several steps
C7_Witness ==
    /\ call = 2 /\ pc = "done" /\ IsIter
    /\ Len(result.xs) >= 2
    /\ printed[1] = "clamped"

\* C8: in iterations() a start with r0 >= R is not rejected: before the
\* first step it lies on its ray from the origin at radius R - 1e-6,
\* strictly inside the boundary, nothing is raised and the loop is entered.
C8_StartBeyondBoundaryClamped ==
    (IsIter /\ pc # "start"
            /\ Radius(params.x0, params.y0) >= params.surface_radius) =>
        /\ pc # "raised"
        /\ printed[1] = "clamped"
        /\ steps_run = 0 =>
              /\ pc = "loop"
              /\ Radius(x, y) = params.surface_radius - Eps6
              /\ Radius(x, y) < params.surface_radius
              /\ x * params.x0 + y * params.y0 > 0
              /\ Abs(x * params.y0 - y * params.x0)
                     <= Abs(params.x0) + Abs(params.y0)

\* the first step was taken from a start that had been clamped off an axis
C8_Witness ==
    /\ IsIter /\ steps_run = 1 /\ call = 1
    /\ Radius(params.x0, params.y0) > params.surface_radius
    /\ params.y0 # 0

\* C9: before the first step of either runner the start position is
\* strictly between the central body and the boundary.
C9_StartStrictlyInside ==
    (pc = "loop" /\ steps_run = 0) =>
        /\ Radius(x, y) > params.center_radius
        /\ IsIter => Radius(x, y) < params.surface_radius
        /\ IsRun => Radius(x, y) < params.outer_surface_radius

\* r_hat: the unit vector from the start position toward the origin
RHat(p) ==
    LET r == Radius(p.x0, p.y0)
    IN  IF r > 0 THEN <<Quo(-p.x0, r), Quo(-p.y0, r)>> ELSE <<-Unit, 0>>

\* v_i * (cos(theta) * rh + sin(theta) * th)
LaunchVelocity(p, rh, th) ==
    <<Mul(p.v_i, Mul(CosDeg(p.theta), rh[1]) + Mul(SinDeg(p.theta), th[1])),
      Mul(p.v_i, Mul(CosDeg(p.theta), rh[2]) + Mul(SinDeg(p.theta), th[2]))>>

\* r_hat rotated 90 degrees counterclockwise, (0, 1) at the origin
THatCounterclockwise(p) ==
    IF Radius(p.x0, p.y0) > 0 THEN <<-RHat(p)[2], RHat(p)[1]>> ELSE <<0, Unit>>

\* r_hat rotated 90 degrees clockwise, (0, 1) at the origin
THatClockwise(p) ==
    IF Radius(p.x0, p.y0) > 0 THEN <<RHat(p)[2], -RHat(p)[1]>> ELSE <<0, Unit>>

\* C10 as stated: the initial velocity is v_i*(cos(theta)*r_hat +
\* sin(theta)*t_hat) with t_hat = (-r_hat_y, r_hat_x), and r_hat = (-1, 0),
\* t_hat = (0, 1) at the origin.
C10_VelocityCounterclockwiseOfRHat ==
    (IsIter /\ pc = "loop" /\ steps_run = 0) =>
        <<vx, vy>> = LaunchVelocity(params, RHat(params),
                                    THatCounterclockwise(params))

\* C10 amended: the initial velocity is v_i*(cos(theta)*r_hat +
\* sin(theta)*t_hat) with t_hat = (r_hat_y, -r_hat_x), r_hat rotated 90
\* degrees clockwise, and r_hat = (-1, 0), t_hat = (0, 1) at the origin.
C10_VelocityClockwiseOfRHat ==
    (IsIter /\ pc = "loop" /\ steps_run = 0) =>
        <<vx, vy>> = LaunchVelocity(params, RHat(params),
                                    THatClockwise(params))

\* a tangential launch from a start off the origin
C10_Witness ==
    /\ IsIter /\ pc = "loop" /\ steps_run = 0
    /\ params.theta = 90 /\ params.v_i > 0
    /\ params.x0 > 0 /\ params.y0 > 0
    /\ vx < 0 /\ vy > 0

----------------------------------------------------------------------------
(* two calls at the same time: a second caller runs the same function on   *)
(* a params object of its own, and its passes interleave with the passes   *)
(* of the first call in any order.  `other` holds the locals of the second *)
(* call as a record.                                                       *)

\* the locals of a call on p when its loop is entered
StartOf(rn, p) ==
    IF rn = "iterations"
    THEN [params |-> p, pc |-> "loop",
          x |-> StartPos(p)[1], y |-> StartPos(p)[2],
          vx |-> Vx0(p), vy |-> Vy0(p),
          xs |-> <<>>, ys |-> <<>>, zs |-> <<>>,
          steps_run |-> 0, collided |-> FALSE, result |-> NoResult]
    ELSE [params |-> p, pc |-> "loop",
          x |-> p.initial_position_x, y |-> p.initial_position_y,
          vx |-> p.initial_velocity_x, vy |-> p.initial_velocity_y,
          xs |-> <<>>, ys |-> <<>>, zs |-> <<>>,
          steps_run |-> 0, collided |-> FALSE, result |-> NoResult]

\* the locals after one more pass of `while True` in iterations()
IterPassOf(o) ==
    LET p == o.params
        b == IterBody(p, o.x, o.y, o.vx, o.vy)
        r == Radius(b.x, b.y)
        hx == Append(o.xs, b.x)
        hy == Append(o.ys, b.y)
        hz == Append(o.zs, b.z)
        stop == EscapeTest(p, r) \/ CollisionTest(p, r)
    IN  IF IterRaises(p, o.x, o.y)
        THEN [o EXCEPT !.pc = "raised"]
        ELSE [o EXCEPT !.x = b.x, !.y = b.y, !.vx = b.vx, !.vy = b.vy,
                       !.xs = hx, !.ys = hy, !.zs = hz,
                       !.steps_run = o.steps_run + 1,
                       !.pc = IF stop THEN "done" ELSE "loop",
                       !.result = IF stop
                                  THEN IterResult(hx, hy, hz, o.steps_run + 1,
                                                  b.x, b.y, b.vx, b.vy)
                                  ELSE o.result]

\* the locals after one more pass of the for loop of run_simulation(), or
\* after its exit when range(steps) is exhausted
RunPassOf(o) ==
    LET p == o.params
        b == RunBody(p, o.x, o.y, o.vx, o.vy)
    IN  IF o.steps_run >= p.num_steps
        THEN [o EXCEPT !.pc = "done",
                       !.result = RunResult(o.xs, o.ys, o.zs, o.collided,
                                            o.steps_run, o.x, o.y, o.vx, o.vy)]
        ELSE IF Radius(o.x, o.y) < p.center_radius
        THEN [o EXCEPT !.pc = "done", !.collided = TRUE,
                       !.result = RunResult(o.xs, o.ys, o.zs, TRUE,
                                            o.steps_run, o.x, o.y, o.vx, o.vy)]
        ELSE IF FieldRaises(p.surface_sigma)
        THEN [o EXCEPT !.pc = "raised"]
        ELSE [o EXCEPT !.x = b.x, !.y = b.y, !.vx = b.vx, !.vy = b.vy,
                       !.xs = Append(o.xs, b.x), !.ys = Append(o.ys, b.y),
                       !.zs = Append(o.zs, SurfaceH(p.surface_depth,
                                                   p.surface_sigma, b.x, b.y)),
                       !.steps_run = o.steps_run + 1]

PassOf(rn, o) == IF rn = "iterations" THEN IterPassOf(o) ELSE RunPassOf(o)

\* a call executed alone, from the entry of its loop to its return
RECURSIVE Completed(_, _)
Completed(rn, o) ==
    IF o.pc # "loop" \/ (rn = "iterations" /\ o.steps_run >= StepCap)
    THEN o
    ELSE Completed(rn, PassOf(rn, o))

\* what the call on p returns when it is executed alone
Alone(rn, p) == Completed(rn, StartOf(rn, p)).result

\* the second call reads its parameters and enters its loop
OtherStart ==
    /\ other.pc = "start"
    /\ other' = StartOf(runner, other.params)
    /\ UNCHANGED <<runner, params, pc, x, y, vx, vy, xs, ys, zs, steps_run,
                   collided, printed, result, call, first, grad,
                   acc, frames, window>>

\* OtherPass with the history list xs held at module level, one list for
\* both calls
OtherPassShared ==
    /\ other.pc = "loop"
    /\ runner = "iterations" => other.steps_run < StepCap
    /\ other' = PassOf(runner, [other EXCEPT !.xs = xs])
    /\ xs' = other'.xs
    /\ UNCHANGED <<runner, params, pc, x, y, vx, vy, ys, zs, steps_run,
                   collided, printed, result, call, first, grad,
                   acc, frames, window>>

\* one pass of the loop of the second call
OtherPass ==
    /\ other.pc = "loop"
    /\ runner = "iterations" => other.steps_run < StepCap
    /\ other' = PassOf(runner, other)
    /\ UNCHANGED <<runner, params, pc, x, y, vx, vy, xs, ys, zs, steps_run,
                   collided, printed, result, call, first, grad,
                   acc, frames, window>>

InterleavedMembraneParams ==
    { [g |-> G, time_step |-> 20, num_steps |-> MaxNumSteps,
       surface_radius |-> 50, surface_tension |-> 1000,
       center_weight |-> 490, center_radius |-> 5,
       x0 |-> p[1], y0 |-> p[2], v_i |-> v, theta |-> th,
       friction_coef |-> 30] :
         p \in { <<49, 0>>, <<12, 16>>, <<0, 20>> },
         v \in {0, 100}, th \in {0, 90} }

InterleavedGaussParams ==
    { [earth_gravity |-> G, friction_coefficient |-> 0, time_step |-> 10,
       num_steps |-> n, center_radius |-> 5, center_mass |-> 100,
       surface_depth |-> d, surface_sigma |-> 20,
       initial_position_x |-> px, initial_position_y |-> 0,
       initial_velocity_x |-> ivx, initial_velocity_y |-> 0,
       outer_surface_radius |-> 50] :
         n \in {MaxNumSteps - 1, MaxNumSteps}, d \in {0, 10},
         px \in {5, 15}, ivx \in {-100, 100} }

InitInterleaved ==
    /\ runner \in {"iterations", "run_simulation"}
    /\ params \in IF runner = "iterations" THEN InterleavedMembraneParams
                                            ELSE InterleavedGaussParams
    /\ pc = "start"
    /\ x = 0 /\ y = 0 /\ vx = 0 /\ vy = 0
    /\ xs = <<>> /\ ys = <<>> /\ zs = <<>>
    /\ steps_run = 0
    /\ collided = FALSE
    /\ printed = <<>>
    /\ result = NoResult
    /\ call = 1
    /\ first = NoResult
    /\ grad = Unassigned
    /\ acc = <<0, 0>>
    /\ frames = <<>>
    /\ window = NoWindow
    /\ \E q \in IF runner = "iterations" THEN InterleavedMembraneParams
                                          ELSE InterleavedGaussParams :
           other = [params |-> q, pc |-> "start"]

NextInterleaved ==
    \/ IterStart
    \/ IterStep
    \/ RunStart
    \/ RunCollide
    \/ RunStep
    \/ RunExhausted
    \/ OtherStart
    \/ OtherPass

SpecInterleaved == InitInterleaved /\ [][NextInterleaved]_vars

----------------------------------------------------------------------------
(* plot_2d/sim_newton.py: the velocity-Verlet runner and its animation     *)

\* dt = 0.02, r_big = 6.0, r_small = 2.0, stride = 10
NewtonDt == 2
r_big == 600
r_small == 200
NewtonStride == 10

NewtonParams ==
    { [G |-> 100, M |-> 2000000, r0 |-> r, v0 |-> v, theta_deg |-> th,
       gamma |-> gm, n_frames |-> n] :
         r \in {500, 1200, 2000}, v \in {0, 5000, 10000}, th \in {90, 180},
         gm \in {0, 100}, n \in {0, NewtonStride + 1, MaxNFrames} }

\* accel(r_vec, v_vec); at the origin r is 1e-12, r_hat is 0 / 1e-12 = 0 and
\* so is a_grav
accel(p, rx, ry, wx, wy) ==
    LET mu == Mul(p.G, p.M)
        r == Radius(rx, ry)
        a_mag == Quo(mu, Mul(r, r))
        gx == IF r > 0 THEN Mul(-a_mag, Quo(rx, r)) ELSE 0
        gy == IF r > 0 THEN Mul(-a_mag, Quo(ry, r)) ELSE 0
    IN  <<gx + Mul(-p.gamma, wx), gy + Mul(-p.gamma, wy)>>

\* 0.5 * a * dt**2 and 0.5 * a * dt, each rounded once
HalfDt2(c) == Rnd(c * NewtonDt * NewtonDt, 2 * Unit * Unit)
HalfDt(c) == Rnd(c * NewtonDt, 2 * Unit)

\* VerletBody with the drag of a_next taken at the full-step velocity, by a
\* second evaluation of accel after v_next
VerletBodyRecomputed(p, rx, ry, wx, wy, c) ==
    LET nx == rx + Mul(wx, NewtonDt) + HalfDt2(c[1])
        ny == ry + Mul(wy, NewtonDt) + HalfDt2(c[2])
        hx == wx + HalfDt(c[1])
        hy == wy + HalfDt(c[2])
        a_half == accel(p, nx, ny, hx, hy)
        ux == hx + HalfDt(a_half[1])
        uy == hy + HalfDt(a_half[2])
    IN  [x |-> nx, y |-> ny, vx |-> ux, vy |-> uy,
         a |-> accel(p, nx, ny, ux, uy)]

\* lines 73-78: one velocity-Verlet step
VerletBody(p, rx, ry, wx, wy, c) ==
    LET nx == rx + Mul(wx, NewtonDt) + HalfDt2(c[1])
        ny == ry + Mul(wy, NewtonDt) + HalfDt2(c[2])
        hx == wx + HalfDt(c[1])
        hy == wy + HalfDt(c[2])
        a_next == accel(p, nx, ny, hx, hy)
    IN  [x |-> nx, y |-> ny,
         vx |-> hx + HalfDt(a_next[1]), vy |-> hy + HalfDt(a_next[2]),
         a |-> a_next]

\* lines 26-64: initial position, velocity and acceleration, empty history
NewtonStart ==
    /\ runner = "newton" /\ pc = "start"
    /\ x' = params.r0 /\ y' = 0
    /\ vx' = Mul(params.v0, CosDeg(params.theta_deg))
    /\ vy' = Mul(params.v0, SinDeg(params.theta_deg))
    /\ acc' = accel(params, x', y', vx', vy')
    /\ xs' = <<>> /\ ys' = <<>>
    /\ pc' = "loop"
    /\ UNCHANGED <<runner, params, zs, steps_run, collided, printed, result,
                   call, first, grad, other, frames, window>>

\* NewtonPass with the contact test before the position is recorded
NewtonPassTestFirst ==
    /\ runner = "newton" /\ pc = "loop"
    /\ Len(xs) < params.n_frames
    /\ IF Radius(x, y) <= r_big + r_small
       THEN /\ pc' = "done"
            /\ UNCHANGED <<x, y, vx, vy, acc, xs, ys>>
       ELSE LET b == VerletBody(params, x, y, vx, vy, acc)
            IN  /\ xs' = Append(xs, x) /\ ys' = Append(ys, y)
                /\ x' = b.x /\ y' = b.y /\ vx' = b.vx /\ vy' = b.vy
                /\ acc' = b.a
                /\ pc' = "loop"
    /\ UNCHANGED <<runner, params, zs, steps_run, collided, printed, result,
                   call, first, grad, other, frames, window>>

\* lines 66-78: one pass of the for loop: record, test the contact, step
NewtonPass ==
    /\ runner = "newton" /\ pc = "loop"
    /\ Len(xs) < params.n_frames
    /\ xs' = Append(xs, x) /\ ys' = Append(ys, y)
    /\ IF Radius(x, y) <= r_big + r_small
       THEN /\ pc' = "done"
            /\ UNCHANGED <<x, y, vx, vy, acc>>
       ELSE LET b == VerletBody(params, x, y, vx, vy, acc)
            IN  /\ x' = b.x /\ y' = b.y /\ vx' = b.vx /\ vy' = b.vy
                /\ acc' = b.a
                /\ pc' = "loop"
    /\ UNCHANGED <<runner, params, zs, steps_run, collided, printed, result,
                   call, first, grad, other, frames, window>>

\* line 66: range(n_frames) is exhausted
NewtonExhausted ==
    /\ runner = "newton" /\ pc = "loop"
    /\ Len(xs) >= params.n_frames
    /\ pc' = "done"
    /\ UNCHANGED <<runner, params, x, y, vx, vy, xs, ys, zs, steps_run,
                   collided, printed, result, call, first, grad, other, acc,
                   frames, window>>

\* the indices range(0, n, stride) of the history entries that get a frame
FrameIndices(n, stride) ==
    [k \in 1..((n + stride - 1) \div stride) |-> (k - 1) * stride]

\* lines 111-150: xs[::stride], one frame per kept point; xs_anim[0] raises
\* IndexError on an empty history
NewtonFrames ==
    /\ runner = "newton" /\ pc = "done"
    /\ IF Len(xs) = 0
       THEN pc' = "raised" /\ UNCHANGED frames
       ELSE pc' = "shown" /\ frames' = FrameIndices(Len(xs), NewtonStride)
    /\ UNCHANGED <<runner, params, x, y, vx, vy, xs, ys, zs, steps_run,
                   collided, printed, result, call, first, grad, other, acc,
                   window>>

----------------------------------------------------------------------------
(* sim_3d.py: the animation of the membrane trajectory *)

\* stride = max(1, n_points // max_frames)
Stride3d(n_points, max_frames) == Max(1, n_points \div max_frames)

\* lines 119-170: build_animated_figure_3d after its call of iterations()
\* has returned
Frames3d ==
    /\ runner = "iterations" /\ pc = "done"
    /\ frames' = FrameIndices(Len(result.xs),
                              Stride3d(Len(result.xs), params.plot_max_frames))
    /\ pc' = "shown"
    /\ UNCHANGED <<runner, params, x, y, vx, vy, xs, ys, zs, steps_run,
                   collided, printed, result, call, first, grad, other, acc,
                   window>>

\* membrane configurations with the plot_max_frames attribute set
FigureMembraneParams ==
    { [g |-> G, time_step |-> 20, num_steps |-> 0,
       surface_radius |-> 50, surface_tension |-> 1000,
       center_weight |-> 490, center_radius |-> 5,
       x0 |-> p[1], y0 |-> p[2], v_i |-> v, theta |-> th,
       friction_coef |-> fc, plot_max_frames |-> mf] :
         p \in Positions, v \in Speeds, th \in Thetas, fc \in {0, 30},
         mf \in {2, 3} }

InitFigures ==
    /\ runner \in {"iterations", "newton"}
    /\ params \in IF runner = "iterations" THEN FigureMembraneParams
                                            ELSE NewtonParams
    /\ pc = "start"
    /\ x = 0 /\ y = 0 /\ vx = 0 /\ vy = 0
    /\ xs = <<>> /\ ys = <<>> /\ zs = <<>>
    /\ steps_run = 0
    /\ collided = FALSE
    /\ printed = <<>>
    /\ result = NoResult
    /\ call = 1
    /\ first = NoResult
    /\ grad = Unassigned
    /\ acc = <<0, 0>>
    /\ frames = <<>>
    /\ window = NoWindow
    /\ other = Idle

NextFigures ==
    \/ IterStart
    \/ IterStep
    \/ Frames3d
    \/ NewtonStart
    \/ NewtonPass
    \/ NewtonExhausted
    \/ NewtonFrames

SpecFigures == InitFigures /\ [][NextFigures]_vars

----------------------------------------------------------------------------
(* C11..C20 *)

\* C11: iterations() never raises on degenerate parameters (no tension, no
\* central weight, no central radius with the ball at the origin, a surface
\* radius <= 0): it runs to a returned result
C11_MembraneNeverRaises == IsIter => pc # "raised"

\* the returned run ended on a terminal condition: iterations() returns only
\* from its collision and escape tests, run_simulation() sets collided
EndedOnTerminal ==
    \/ IsIter /\ (StoppedOn("collided") \/ StoppedOn("escaped"))
    \/ IsRun /\ pc = "done" /\ result.collided

\* the final position of the returned run meets a terminal condition of
\* its runner
TerminalAtEnd ==
    LET r == Radius(result.final_state.x, result.final_state.y)
    IN  IF IsIter THEN EscapeTest(params, r) \/ CollisionTest(params, r)
                  ELSE r < params.center_radius

\* C12: a run that ended by collision or escape reports steps_run < num_steps,
\* and a run reports steps_run = num_steps only when the budget was exhausted
\* without any terminal condition
C12_TerminalRunsStopEarly ==
    pc = "done" =>
        /\ EndedOnTerminal => result.steps_run < params.num_steps
        /\ result.steps_run = params.num_steps => ~TerminalAtEnd

\* C13: run_simulation() returns collided = TRUE exactly when the final
\* position is inside the central body, a collision reached on the last
\* step of the budget included
C13_CollidedIffFinalInside ==
    (IsRun /\ pc = "done") =>
        (result.collided <=>
            Radius(result.final_state.x, result.final_state.y)
                < params.center_radius)

\* C14: two calls of the same runner on params objects of their own, their
\* passes interleaved in any order, each return what the call returns when
\* it is executed alone
C14_InterleavedRunsAsAlone ==
    /\ pc = "done" => result = Alone(runner, params)
    /\ other.pc = "done" => other.result = Alone(runner, other.params)

\* both calls have returned, on different parameters, after at least two
\* passes each
C14_Witness ==
    /\ pc = "done" /\ other.pc = "done"
    /\ params # other.params
    /\ result # other.result
    /\ Len(result.xs) >= 2 /\ Len(other.result.xs) >= 2

\* the gradient of the surface of the running call at its current position
GradH ==
    IF IsIter
    THEN LET gr == gradient_xy(x, y, params.surface_radius,
                               params.surface_tension, params.center_weight,
                               params.center_radius)
         IN  <<gr.dz_dx, gr.dz_dy>>
    ELSE LET gr == SurfaceGradient(params.surface_depth, params.surface_sigma,
                                   x, y)
         IN  <<gr.dh_dx, gr.dh_dy>>

\* the drag coefficient c and the gravity g of the running call
Drag ==
    IF IsIter
    THEN Quo(params.friction_coef,
             IF params.g = 0 THEN Unit ELSE Quo(params.center_weight, params.g))
    ELSE params.friction_coefficient

Gravity == IF IsIter THEN params.g ELSE params.earth_gravity

\* C15: each step takes a = -g*grad_h(x, y) - c*v from the pre-step state,
\* then v' = v + a*dt and x' = x + v'*dt with the updated velocity; c is
\* friction_coef / m with m = center_weight / g (1 when g = 0) in
\* iterations() and friction_coefficient in run_simulation()
C15_EulerStep ==
    [][ steps_run' = steps_run + 1 =>
          LET a_x == Mul(-Gravity, GradH[1]) - Mul(Drag, vx)
              a_y == Mul(-Gravity, GradH[2]) - Mul(Drag, vy)
          IN  /\ vx' = vx + Mul(a_x, params.time_step)
              /\ vy' = vy + Mul(a_y, params.time_step)
              /\ x' = x + Mul(vx', params.time_step)
              /\ y' = y + Mul(vy', params.time_step) ]_vars

\* the third pass of a call of iterations() with gravity and drag has moved
\* the ball with a velocity that differs from the one before the pass
C15_Witness ==
    /\ IsIter /\ steps_run >= 3
    /\ params.g > 0 /\ params.friction_coef > 0
    /\ vx # 0 /\ vy # 0
    /\ xs[3] - xs[2] # xs[2] - xs[1]

\* the height of the surface of the running call at (px, py)
HeightAt(px, py) ==
    IF IsIter
    THEN deformation(Radius(px, py), params.surface_radius,
                     params.surface_tension, params.center_weight,
                     params.center_radius)
    ELSE SurfaceH(params.surface_depth, params.surface_sigma, px, py)

\* C16: in every history entry the recorded height is the height of the
\* surface at the recorded position, in both runners
C16_HeightBelongsToPosition ==
    \A i \in 1..Len(xs) : zs[i] = HeightAt(xs[i], ys[i])

\* a pass of the loop of iterations() is taken
IterPass == IsIter /\ pc = "loop" /\ vars' # vars

C18_ZeroGradientUnderClamp ==
    [][ (IterPass /\ Radius(x, y) <= params.center_radius) =>
          (grad'.dz_dx = 0 /\ grad'.dz_dy = 0) ]_vars

\* the pass starts away from the origin (r > 1e-12) under gravity, with
\* F > 0 and T > 0
OnSlope ==
    /\ IterPass
    /\ params.g > 0 /\ params.center_weight > 0 /\ params.surface_tension > 0
    /\ Radius(x, y) > 0

C20_GaussianNeverRaises == IsRun => pc # "raised"

----------------------------------------------------------------------------
(* C21..C30 *)

\* C21: the collision threshold is inclusive in every runner: an updated
\* position exactly at r = r_center ends the run there, and the run reports
\* the collision
C21_InclusiveCollision ==
    /\ \A i \in 1..(Len(xs) - 1) : RecordedRadius(i) # params.center_radius
    /\ (pc = "done" /\ Len(xs) >= 1
           /\ RecordedRadius(Len(xs)) = params.center_radius) =>
          IF IsIter THEN StoppedOn("collided") ELSE result.collided

\* a pass of the Verlet loop that takes a step
VerletStep == runner = "newton" /\ pc = "loop" /\ pc' = "loop" /\ xs' # xs

\* C22: each step of the orbital runner is a velocity-Verlet step:
\* r_next = r + v*dt + 0.5*a*dt^2, v_half = v + 0.5*a*dt,
\* a_next = accel(r_next, v_half), v_next = v_half + 0.5*a_next*dt, and the
\* acceleration carried into the next step is a_next
C22_VelocityVerlet ==
    [][ VerletStep =>
          LET v_half == <<vx + HalfDt(acc[1]), vy + HalfDt(acc[2])>>
          IN  /\ x' = x + Mul(vx, NewtonDt) + HalfDt2(acc[1])
              /\ y' = y + Mul(vy, NewtonDt) + HalfDt2(acc[2])
              /\ acc' = accel(params, x', y', v_half[1], v_half[2])
              /\ vx' = v_half[1] + HalfDt(acc'[1])
              /\ vy' = v_half[2] + HalfDt(acc'[2]) ]_vars

\* three Verlet steps with drag have been taken, and the acceleration that
\* is carried differs from accel at the current position and velocity
C22_Witness ==
    /\ runner = "newton" /\ pc = "loop" /\ Len(xs) >= 3
    /\ params.gamma > 0
    /\ acc # accel(params, x, y, vx, vy)

IsNewton == runner = "newton"

\* C23: the Verlet runner records the position before the contact test of
\* each pass: the first recorded point is (r0, 0), at most n_frames points
\* are recorded, and a recorded point with |r| <= r_big + r_small is the
\* last one, with no Verlet step taken after it
C23_RecordedBeforeContactTest ==
    IsNewton =>
        /\ Len(xs) <= params.n_frames
        /\ Len(xs) >= 1 => (xs[1] = params.r0 /\ ys[1] = 0)
        /\ \A i \in 1..Len(xs) :
              RecordedRadius(i) <= r_big + r_small =>
                  /\ i = Len(xs)
                  /\ pc \in {"done", "shown"}
                  /\ x = xs[i] /\ y = ys[i]
        /\ (pc \in {"done", "shown"} /\ Len(xs) < params.n_frames) =>
              (Len(xs) >= 1 /\ RecordedRadius(Len(xs)) <= r_big + r_small)

\* the loop has stopped on a contact reached after at least two steps
C23_Witness ==
    /\ IsNewton /\ pc = "done"
    /\ Len(xs) >= 3 /\ Len(xs) < params.n_frames
    /\ RecordedRadius(Len(xs)) <= r_big + r_small
    /\ RecordedRadius(Len(xs) - 1) > r_big + r_small

\* the trajectory the animation is built from
Recorded == IF IsIter THEN result.xs ELSE xs

\* C24: build_animated_figure_3d never builds more than max_frames frames,
\* whatever the number of recorded points
C24_FramesWithinMax ==
    (IsIter /\ pc = "shown") => Len(frames) <= params.plot_max_frames

\* C25: for a non-empty trajectory the last animation frame of either
\* figure places the marker at the last recorded point
C25_LastFrameAtLastPoint ==
    (pc = "shown" /\ Len(Recorded) >= 1) =>
        frames[Len(frames)] = Len(Recorded) - 1

----------------------------------------------------------------------------
(* main.py and simu_newtonienne/simulation.py: the two plain Euler runs
   around the sun, started from the same state and constants.  The script's
   run lives in the variables (runner = "main", its ax and ay in acc), the
   Simulation object in the record other. *)

MaxEulerSteps == 3

M_sun == 200
sun_radius == 30
k_depth == 10
k_sigma == 200

EulerParams ==
    { [G |-> 100, M_sun |-> M_sun, mu |-> m, dt |-> d, steps |-> n,
       sun_radius |-> sun_radius, x |-> px, y |-> 0, vx |-> pvx, vy |-> pvy] :
         m \in {0, 5}, d \in {1, 10, 50}, n \in {0, 2, MaxEulerSteps},
         px \in {50, 200}, pvx \in {-100, 0}, pvy \in {0, 100} }

\* h of main.py and the static Drap.h: both read the module constants depth
\* and sigma
h(px, py) == SurfaceH(Mul(k_depth, M_sun), Mul(k_sigma, sun_radius), px, py)

\* class Soleil, built from (sun_radius, M_sun) and read through get_radius
\* and get_mass
Soleil(sr, sm) == [radius |-> sr, mass |-> sm]
get_radius(sun) == sun.radius
get_mass(sun) == sun.mass

\* main.py lines 33-38
MainBody(p, px, py, pvx, pvy) ==
    LET r == Radius(px, py)
        r3 == Mul(Mul(r, r), r)
        ax == Quo(Mul(Mul(-p.G, p.M_sun), px), r3) - Mul(p.mu, pvx)
        ay == Quo(Mul(Mul(-p.G, p.M_sun), py), r3) - Mul(p.mu, pvy)
        nvx == pvx + Mul(ax, p.dt)
        nvy == pvy + Mul(ay, p.dt)
    IN  [x |-> px + Mul(nvx, p.dt), y |-> py + Mul(nvy, p.dt),
         vx |-> nvx, vy |-> nvy, ax |-> ax, ay |-> ay]

\* Simulation._run lines 22-25, with Bille.update_velocity and
\* Bille.update_position
SimBody(p, o) ==
    LET r == Radius(o.x, o.y)
        r2 == Mul(r, r)
        ax == Quo(Mul(Mul(-p.G, get_mass(o.sun)), o.x), r2) - Mul(o.mu, o.vx)
        ay == Quo(Mul(Mul(-p.G, get_mass(o.sun)), o.y), r2) - Mul(o.mu, o.vy)
        nvx == o.vx + Mul(ax, p.dt)
        nvy == o.vy + Mul(ay, p.dt)
    IN  [x |-> o.x + Mul(nvx, p.dt), y |-> o.y + Mul(nvy, p.dt),
         vx |-> nvx, vy |-> nvy, ax |-> ax, ay |-> ay]

\* main.py lines 25-27
MainStart ==
    /\ runner = "main" /\ pc = "start"
    /\ pc' = "loop"
    /\ x' = params.x /\ y' = params.y
    /\ vx' = params.vx /\ vy' = params.vy
    /\ xs' = <<>> /\ ys' = <<>> /\ zs' = <<>>
    /\ UNCHANGED <<runner, params, steps_run, collided, printed, result,
                   call, first, grad, other, acc, frames, window>>

\* main.py lines 29-41: one pass of the for loop
MainPass ==
    /\ runner = "main" /\ pc = "loop"
    /\ Len(xs) < params.steps
    /\ IF Radius(x, y) < params.sun_radius
       THEN /\ pc' = "done"
            /\ UNCHANGED <<x, y, vx, vy, xs, ys, zs, acc>>
       ELSE LET b == MainBody(params, x, y, vx, vy)
            IN  /\ pc' = "loop"
                /\ acc' = <<b.ax, b.ay>>
                /\ vx' = b.vx /\ vy' = b.vy
                /\ x' = b.x /\ y' = b.y
                /\ xs' = Append(xs, b.x)
                /\ ys' = Append(ys, b.y)
                /\ zs' = Append(zs, h(b.x, b.y))
    /\ UNCHANGED <<runner, params, steps_run, collided, printed, result,
                   call, first, grad, other, frames, window>>

\* main.py line 29: range(steps) is spent
MainExhausted ==
    /\ runner = "main" /\ pc = "loop"
    /\ Len(xs) >= params.steps
    /\ pc' = "done"
    /\ UNCHANGED <<runner, params, x, y, vx, vy, xs, ys, zs, steps_run,
                   collided, printed, result, call, first, grad, other, acc,
                   frames, window>>

\* Simulation.__init__ lines 11-14, with Bille.__init__
SimStart ==
    /\ runner = "main" /\ other = Idle
    /\ other' = [pc |-> "loop",
                 sun |-> Soleil(params.sun_radius, params.M_sun),
                 mu |-> params.mu,
                 x |-> params.x, y |-> params.y,
                 vx |-> params.vx, vy |-> params.vy,
                 ax |-> 0, ay |-> 0,
                 xs |-> <<>>, ys |-> <<>>, zs |-> <<>>]
    /\ UNCHANGED <<runner, params, pc, x, y, vx, vy, xs, ys, zs, steps_run,
                   collided, printed, result, call, first, grad, acc, frames,
                   window>>

\* Simulation._run lines 18-28: one pass of the for loop
SimPass ==
    /\ runner = "main" /\ other # Idle /\ other.pc = "loop"
    /\ Len(other.xs) < params.steps
    /\ IF Radius(other.x, other.y) < get_radius(other.sun)
       THEN other' = [other EXCEPT !.pc = "done"]
       ELSE LET b == SimBody(params, other)
            IN  other' = [other EXCEPT !.ax = b.ax, !.ay = b.ay,
                                       !.vx = b.vx, !.vy = b.vy,
                                       !.x = b.x, !.y = b.y,
                                       !.xs = Append(@, b.x),
                                       !.ys = Append(@, b.y),
                                       !.zs = Append(@, h(b.x, b.y))]
    /\ UNCHANGED <<runner, params, pc, x, y, vx, vy, xs, ys, zs, steps_run,
                   collided, printed, result, call, first, grad, acc, frames,
                   window>>

\* Simulation._run line 18: range(steps) is spent
SimExhausted ==
    /\ runner = "main" /\ other # Idle /\ other.pc = "loop"
    /\ Len(other.xs) >= params.steps
    /\ other' = [other EXCEPT !.pc = "done"]
    /\ UNCHANGED <<runner, params, pc, x, y, vx, vy, xs, ys, zs, steps_run,
                   collided, printed, result, call, first, grad, acc, frames,
                   window>>

InitEuler ==
    /\ runner = "main"
    /\ params \in EulerParams
    /\ pc = "start"
    /\ x = 0 /\ y = 0 /\ vx = 0 /\ vy = 0
    /\ xs = <<>> /\ ys = <<>> /\ zs = <<>>
    /\ steps_run = 0
    /\ collided = FALSE
    /\ printed = <<>>
    /\ result = NoResult
    /\ call = 1
    /\ first = NoResult
    /\ grad = Unassigned
    /\ acc = <<0, 0>>
    /\ frames = <<>>
    /\ window = NoWindow
    /\ other = Idle

NextEuler ==
    \/ MainStart
    \/ MainPass
    \/ MainExhausted
    \/ SimStart
    \/ SimPass
    \/ SimExhausted

SpecEuler == InitEuler /\ [][NextEuler]_vars

\* C26: started from the same state and constants, main.py and
\* Simulation._run apply the same acceleration at every step, stop on the
\* same contact test and record the same position history
C26_EulerVariantsAgree ==
    (runner = "main" /\ other # Idle) =>
        /\ \A i \in 1..Min(Len(xs), Len(other.xs)) :
              /\ xs[i] = other.xs[i]
              /\ ys[i] = other.ys[i]
              /\ zs[i] = other.zs[i]
        /\ (Len(xs) = Len(other.xs) /\ Len(xs) >= 1) =>
              acc = <<other.ax, other.ay>>
        /\ (pc = "done" /\ other.pc = "done") => Len(xs) = Len(other.xs)

\* C27: iterations() and run_simulation() never write to a field of the
\* params object they receive; when the start is clamped only the run's own
\* position is rescaled
C27_ParamsNeverWritten ==
    [][(IsIter \/ IsRun) => params' = params]_vars

\* a run of iterations() whose start was clamped has returned, and x0, y0
\* still lie outside the surface
C27_Witness ==
    /\ IsIter /\ pc = "done" /\ result.returned
    /\ Len(printed) >= 1 /\ printed[1] = "clamped"
    /\ Radius(params.x0, params.y0) > params.surface_radius

\* C28: after every step of iterations() and run_simulation(), and in the
\* result, the three history lists have the length steps_run; the lists
\* start empty and each pass appends the position reached by that pass, so
\* the start is not recorded and the entries are in step order
C28_HistoryInStepOrder ==
    [][(IsIter \/ IsRun) =>
          /\ Len(xs') = steps_run'
          /\ Len(ys') = steps_run'
          /\ Len(zs') = steps_run'
          /\ result'.returned =>
                /\ result'.xs = xs' /\ result'.ys = ys' /\ result'.zs = zs'
                /\ result'.steps_run = Len(xs')
          /\ <<xs', ys', zs'>> # <<xs, ys, zs>> =>
                \/ /\ pc = "start"
                   /\ xs' = <<>> /\ ys' = <<>> /\ zs' = <<>>
                \/ /\ pc = "loop"
                   /\ xs' = Append(xs, x')
                   /\ ys' = Append(ys, y')
                   /\ Len(zs') = Len(zs) + 1
                   /\ SubSeq(zs', 1, Len(zs)) = zs
    ]_vars

\* a run has returned a history of at least two distinct entries
C28_Witness ==
    /\ IsIter \/ IsRun
    /\ pc = "done" /\ result.returned
    /\ result.steps_run >= 2 /\ Len(result.xs) = result.steps_run
    /\ result.xs[1] # result.xs[2]

----------------------------------------------------------------------------
(* tracking/gui/Window.py and tracking/model/LiveTracking.py: the tracking
   window.  The record window holds the fields of the Window object and of
   its LiveTracking object: lt is `liveTracking is not None`, cap is "unset"
   before openVideo, "open" while cap.isOpened() and "closed" otherwise,
   out is "unset" before the first VideoWriter, "none" after a release,
   "open" or "failed" after VideoWriter(...); records and positions are the
   lengths of the two lists; timers counts the pending root.after callbacks;
   raised tells that a handler has ended with an exception, which Tk
   reports before it goes on serving the buttons. *)

MaxRecords == 2
MaxTimers == 2

\* LiveTracking.py line 55: positions[-20:]
TrailLen == 20

\* the Window after __init__ and create_widgets
NewWindow ==
    [created |-> TRUE, live |-> FALSE, lt |-> FALSE, cap |-> "unset",
     recording |-> FALSE, out |-> "unset", records |-> 0, positions |-> 0,
     labelLive |-> "OFF", labelRecord |-> "OFF", timers |-> 0,
     raised |-> FALSE]

\* Window.setLiveTracking: getBGRValues always returns a list
setLiveTracking(w) == [w EXCEPT !.lt = TRUE]

\* LiveTracking.openVideo; ok is the outcome of cv2.VideoCapture
openVideo(w, ok) == [w EXCEPT !.cap = IF ok THEN "open" ELSE "closed"]

\* LiveTracking.readFrame with modifyFrame; ret is the outcome of cap.read(),
\* found tells whether findBallFrame returned a centre
readFrame(w, ret, found) ==
    IF w.cap # "open" \/ ~ret
    THEN [w |-> w, frame |-> FALSE]
    ELSE [w |-> [w EXCEPT
                   !.records = IF w.recording /\ w.out \notin {"unset", "none"}
                               THEN @ + 1 ELSE @,
                   !.positions = Min(TrailLen, IF found THEN @ + 1 ELSE @)],
          frame |-> TRUE]

\* LiveTracking.releaseVideo
releaseVideo(w) == [w EXCEPT !.cap = IF @ = "open" THEN "closed" ELSE @]

\* LiveTracking.startRecording; ret is the outcome of cap.read(), opened
\* that of out.isOpened()
startRecording(w, ret, opened) ==
    IF w.recording THEN w
    ELSE IF w.cap # "open" THEN w
    ELSE IF ~ret THEN w
    ELSE IF ~opened THEN [w EXCEPT !.out = "failed"]
    ELSE [w EXCEPT !.out = "open", !.recording = TRUE]

\* LiveTracking.stopRecording: writing a recorded frame needs a writer
stopRecording(w) ==
    IF w.records > 0 /\ w.out \in {"unset", "none"}
    THEN [w EXCEPT !.recording = FALSE, !.raised = TRUE]
    ELSE [w EXCEPT !.recording = FALSE, !.records = 0,
                   !.out = IF @ = "unset" THEN @ ELSE "none"]

\* the body of Window.updateImage
UpdateImageBody(w, ret, found) ==
    IF ~w.live \/ ~w.lt
    THEN w
    ELSE LET rd == readFrame(w, ret, found)
         IN  IF rd.frame
             THEN [rd.w EXCEPT !.timers = @ + 1]
             ELSE rd.w

\* the body of Window.onStopRecording
StopRecordingBody(w) ==
    IF ~w.lt
    THEN [w EXCEPT !.raised = TRUE]
    ELSE LET s == stopRecording(w)
         IN  IF s.raised /\ ~w.raised THEN s
             ELSE [s EXCEPT !.labelRecord = "OFF"]

\* what the timers and the recorded frames of the model can still take
WindowRoom(w) == w.timers < MaxTimers /\ w.records < MaxRecords

\* Window.onStartLive, lines 98-106
onStartLive ==
    /\ window.created /\ WindowRoom(window)
    /\ \E ok \in BOOLEAN, ret \in BOOLEAN, found \in BOOLEAN :
          window' =
              IF window.live THEN window
              ELSE LET w1 == IF window.lt THEN window
                                         ELSE setLiveTracking(window)
                       w2 == openVideo(w1, ok)
                       w3 == [w2 EXCEPT !.live = TRUE, !.labelLive = "ON"]
                   IN  UpdateImageBody(w3, ret, found)
    /\ UNCHANGED <<runner, params, pc, x, y, vx, vy, xs, ys, zs, steps_run,
                   collided, printed, result, call, first, grad, other, acc,
                   frames>>

\* Window.updateImage run by root.after, lines 109-122
updateImage ==
    /\ window.created /\ window.timers > 0
    /\ window.records < MaxRecords
    /\ \E ret \in BOOLEAN, found \in BOOLEAN :
          window' = UpdateImageBody([window EXCEPT !.timers = @ - 1],
                                    ret, found)
    /\ UNCHANGED <<runner, params, pc, x, y, vx, vy, xs, ys, zs, steps_run,
                   collided, printed, result, call, first, grad, other, acc,
                   frames>>

\* Window.onStopLive, lines 125-130
onStopLive ==
    /\ window.created
    /\ LET w1 == [window EXCEPT !.live = FALSE]
           w2 == IF w1.lt THEN releaseVideo(w1) ELSE w1
           w3 == [w2 EXCEPT !.labelLive = "OFF"]
       IN  window' = StopRecordingBody(w3)
    /\ UNCHANGED <<runner, params, pc, x, y, vx, vy, xs, ys, zs, steps_run,
                   collided, printed, result, call, first, grad, other, acc,
                   frames>>

\* Window.onStartRecording, lines 132-134
onStartRecording ==
    /\ window.created
    /\ \E ret \in BOOLEAN, opened \in BOOLEAN :
          window' =
              IF ~window.lt
              THEN [window EXCEPT !.raised = TRUE]
              ELSE [startRecording(window, ret, opened)
                        EXCEPT !.labelRecord = "ON"]
    /\ UNCHANGED <<runner, params, pc, x, y, vx, vy, xs, ys, zs, steps_run,
                   collided, printed, result, call, first, grad, other, acc,
                   frames>>

\* Window.onStopRecording, lines 136-138
onStopRecording ==
    /\ window.created
    /\ window' = StopRecordingBody(window)
    /\ UNCHANGED <<runner, params, pc, x, y, vx, vy, xs, ys, zs, steps_run,
                   collided, printed, result, call, first, grad, other, acc,
                   frames>>

InitTracking ==
    /\ runner = "tracking"
    /\ params = [videoSource |-> 0]
    /\ pc = "start"
    /\ x = 0 /\ y = 0 /\ vx = 0 /\ vy = 0
    /\ xs = <<>> /\ ys = <<>> /\ zs = <<>>
    /\ steps_run = 0
    /\ collided = FALSE
    /\ printed = <<>>
    /\ result = NoResult
    /\ call = 1
    /\ first = NoResult
    /\ grad = Unassigned
    /\ acc = <<0, 0>>
    /\ frames = <<>>
    /\ other = Idle
    /\ window = NewWindow

NextTracking ==
    \/ onStartLive
    \/ updateImage
    \/ onStopLive
    \/ onStartRecording
    \/ onStopRecording

SpecTracking == InitTracking /\ [][NextTracking]_vars

\* C30: after any sequence of presses of the four buttons no handler has
\* raised, and the recording label shows ON exactly when
\* LiveTracking.recording is true
C30_IndicatorMatchesRecording ==
    window.created =>
        /\ ~window.raised
        /\ window.labelRecord = "ON" <=> window.recording

====
